---- MODULE Spec2Model ----
(***************************************************************************)
(* Model of the slide-challenge solver of the seat reservation program:    *)
(* src/src/core/slider_captcha.py (class SliderCaptcha).                   *)
(*                                                                         *)
(* Numbers.  generate_track computes with floats whose values are all      *)
(* multiples of 0.25 for the constants of the source (a = +-50, t = 0.1:   *)
(* a*t = +-5, 0.5*a*t*t = +-0.25, v*t = 0.5*k).  The model therefore       *)
(* keeps every distance of the simulation in quarter pixels (Q = 4) and    *)
(* the velocity as the integer it is.  The scale ratio                     *)
(* displayedWidth / originalWidth is kept in quarters too, so that         *)
(* distance * ratio is exact and int() is a truncation that can be told    *)
(* from a rounding.                                                        *)
(***************************************************************************)
EXTENDS Integers, Sequences, FiniteSets, TLC

\* ---------------------------------------------------------------- bounds
MaxDist == 60          \* largest target distance given to generate_track
MaxAttempts == 2       \* largest max_attempts given to handle_slider_captcha
NegDist == 3           \* generate_track is given targets down to -NegDist

\* ------------------------------------------------------ program constants
A1 == 50                       \* a1 = 50.0
A2 == -50                      \* a2 = -50.0
Q == 4                         \* quarter pixels per pixel (unit of the model)
BatchSize == 5                 \* (i + 1) % 5 == 0
SLIDER_DISTANCE_OFFSET == 0    \* settings.SLIDER_DISTANCE_OFFSET
DefaultRatio == 4              \* return 1.0, in quarters

\* -------------------------------------------------------- input domains
MatchOffsets == {-3, 0, 5, 15, 100, 200}   \* results of slide_match
Ratios == {0, 2, 3, 4}                     \* ratio in quarters: 0, 0.5, 0.75, 1.0
Margins == {0, 5, 10}                      \* settings.SLIDER_SAFE_MARGIN

VARIABLES
    sim,             \* generate_track: the locals of one call, stepwise
    pc,              \* handle_slider_captcha: position in the method
    max_attempts,    \* its argument
    safe_margin,     \* settings.SLIDER_SAFE_MARGIN
    attempt,         \* loop variable of `for attempt in range(1, max_attempts + 1)`
    outcome,         \* "none" while running, then "true", "false" or "raised"
    images,          \* (bg_bytes, slider_bytes): 0 is (None, None), k the pair fetched by call k
    distance,        \* local `distance`
    scale_ratio,     \* local `scale_ratio`, in quarters
    final_distance,  \* local `final_distance`
    track,           \* local `track`
    drag,            \* what the last drag_slider call did
    pointerDown,     \* Automation Surface: the pointer is pressed
    calls,           \* number of calls made to each collaborator
    stages,          \* stages carried out in the current attempt, in order
    recognized,      \* image pair given to the recognizer in the current attempt
    verified,        \* what verify_result reported in the current attempt
    fault,           \* what ended or failed the current attempt
    scale_query,     \* how the width query of calculate_scale_ratio ended in the current attempt
    acct,            \* run_account: the state of each account worker
    lock,            \* results_lock: 0 when free, else the worker holding it
    results,         \* reservation_results
    mainp,           \* main: position, loop index and summary
    helper,          \* ElementHelper / select_seat: the call in progress
    notifier         \* WeChatWorkNotifier: stats and the send in progress

vars == <<sim, pc, max_attempts, safe_margin, attempt, outcome, images, distance,
          scale_ratio, final_distance, track, drag, pointerDown, calls, stages,
          recognized, verified, fault, scale_query, acct, lock, results, mainp,
          helper, notifier>>

ctl == <<pc, max_attempts, safe_margin, attempt, outcome, images, distance,
         scale_ratio, final_distance, track, drag, pointerDown, calls, stages,
         recognized, verified, fault, scale_query>>

orch == <<acct, lock, results, mainp>>

util == <<helper, notifier>>

\* ---------------------------------------------------------------- helpers
Max(a, b) == IF a >= b THEN a ELSE b

RECURSIVE SumSeq(_)
SumSeq(s) == IF s = <<>> THEN 0 ELSE Head(s) + SumSeq(Tail(s))

\* Python round(m / Q): nearest integer, ties to the even one.
PyRound(m) ==
    LET q == m \div Q
        r == m % Q
    IN  IF 2 * r < Q THEN q
        ELSE IF 2 * r > Q THEN q + 1
        ELSE IF q % 2 = 0 THEN q ELSE q + 1

\* ------------------------------------------------------- generate_track
\* mid_distance = 0.5 * a1 * t_acc * t_acc with t_acc = sqrt(target / a1).
MidDistance(target) == (Q * target) \div 2

SimInit(target) ==
    [phase |-> "loop", target |-> target, current |-> 0, v |-> 0,
     raw_track |-> <<>>, track |-> <<>>, delta |-> 0, last_move |-> 0]

ClampMoveNone(current, move, target) == move

\* if current + move > target_distance: move = target_distance - current
ClampMove(current, move, target) ==
    IF current + move > Q * target THEN Q * target - current ELSE move

\* if move >= 0.5: raw_track.append(move)
KeepMove(move) == 2 * move >= Q

LoopContinuesInclusive(s) == s.current <= Q * s.target

\* while current < target_distance
LoopContinues(s) == s.current < Q * s.target

\* One iteration of `while current < target_distance`.
SimStep(s) ==
    LET a == IF s.current < MidDistance(s.target) THEN A1 ELSE A2
        v_old == s.v
        v_new == Max(0, v_old + a \div 10)
        move0 == (Q * v_old) \div 10 + (Q * a) \div 200
        move == ClampMove(s.current, move0, s.target)
    IN  [s EXCEPT !.v = v_new,
                  !.current = @ + move,
                  !.last_move = move,
                  !.raw_track = IF KeepMove(move) THEN Append(@, move) ELSE @]

RoundStepTrunc(step) == step \div Q

RoundStepCeil(step) == Max(1, (step + Q - 1) \div Q)

\* max(1, int(round(step)))
RoundStep(step) == Max(1, PyRound(step))

RemainderFixNone(tr, target) == tr

RemainderFixFirst(tr, target) ==
    [tr EXCEPT ![1] = Max(1, @ + (target - SumSeq(tr)))]

\* delta = target_distance - sum(track); track[-1] = max(1, track[-1] + delta)
RemainderFix(tr, target) ==
    [tr EXCEPT ![Len(tr)] = Max(1, @ + (target - SumSeq(tr)))]

\* Lines 170-177: fallback step, rounding, remainder correction.
SimFinish(s) ==
    LET raw == IF s.raw_track = <<>> THEN <<Q * s.target>> ELSE s.raw_track
        tr == [i \in 1..Len(raw) |-> RoundStep(raw[i])]
    IN  [s EXCEPT !.phase = "done",
                  !.raw_track = raw,
                  !.delta = s.target - SumSeq(tr),
                  !.track = RemainderFix(tr, s.target)]

RECURSIVE SimLoop(_)
SimLoop(s) == IF LoopContinues(s) THEN SimLoop(SimStep(s)) ELSE s

EarlyReturnStrict(d) == d < 0

EarlyReturnZero(d) == d = 0

\* if target_distance <= 0: return []
EarlyReturn(d) == d <= 0

\* generate_track(distance) for an integer distance (int(round(distance)) is
\* then the distance itself).
generate_track(d) ==
    IF EarlyReturn(d) THEN <<>> ELSE SimFinish(SimLoop(SimInit(d))).track

SimIdle ==
    [phase |-> "idle", target |-> 0, current |-> 0, v |-> 0,
     raw_track |-> <<>>, track |-> <<>>, delta |-> 0, last_move |-> 0]

\* ------------------------------------------------------------ drag_slider
FlushAfterFifth(i, len) == i % BatchSize = 0

\* if (i + 1) % 5 == 0 or i == len(track) - 1: action.perform()   (i is 1-based here)
FlushAfter(i, len) == (i % BatchSize = 0) \/ (i = len)

\* Number of action.perform() calls of the loop once n moves went through it.
FlushCount(n, len) == Cardinality({j \in 1..n : FlushAfter(j, len)})

\* What the Automation Surface can do to one drag_slider call: nothing, no
\* handle within the wait, or an exception (MoveTargetOutOfBoundsException or
\* any other: both handlers only log) raised by the press, by the at-th
\* move_by_offset, by the flush after the at-th move, or by the final release.
DragFaults(tr) ==
    {[kind |-> k, at |-> 0] : k \in {"none", "handle", "press", "release"}}
    \cup {[kind |-> "move", at |-> i] : i \in 1..Len(tr)}
    \cup {[kind |-> "flush", at |-> i] : i \in {j \in 1..Len(tr) : FlushAfter(j, Len(tr))}}

\* Number of moves that have reached the surface once n moves went through
\* the loop: those up to the last flush.
Delivered(n, len) ==
    LET pts == {j \in 1..n : FlushAfter(j, len)}
    IN  IF pts = {} THEN 0 ELSE CHOOSE j \in pts : \A k \in pts : k <= j

NoDrag ==
    [called |-> FALSE, raised |-> FALSE, ret |-> FALSE, kind |-> "none",
     pressCalls |-> 0, pressIssued |-> 0, moveCalls |-> 0, flushCalls |-> 0,
     flushed |-> 0, moved |-> <<>>, releaseCalls |-> 0, releaseIssued |-> 0,
     surface |-> <<>>]

\* What the surface has received from one ActionChains object, in the order
\* of its queue: the press, the delivered moves, the release.
SurfaceLog(pressed, mv, released) ==
    (IF pressed THEN <<[op |-> "press", dx |-> 0]>> ELSE <<>>)
    \o [i \in 1..Len(mv) |-> [op |-> "move", dx |-> mv[i]]]
    \o (IF released THEN <<[op |-> "release", dx |-> 0]>> ELSE <<>>)

DragReturnAlways(kind) == TRUE

\* `return True` is the last statement of the try block: it is reached only
\* when no call of the block raised; every other path ends in `return False`.
DragReturn(kind) == kind = "none"

\* Lines 243-247: WebDriverWait(...).until(presence of the handle), outside
\* the try block: a timeout leaves drag_slider as an exception.
LocateHandle(f) == f.kind # "handle"

\* Lines 252-261, the try block.  A queued action reaches the surface only
\* when perform() flushes it; a perform() that raises delivers nothing.
DragTry(tr, f) ==
    LET len == Len(tr)
        before == IF f.at = 0 THEN 0 ELSE Delivered(f.at - 1, len)
        base == [NoDrag EXCEPT !.called = TRUE, !.kind = f.kind, !.pressCalls = 1]
        r ==
        CASE f.kind = "press" -> base
          [] f.kind = "move" ->
                [base EXCEPT !.pressIssued = 1, !.moveCalls = f.at,
                             !.flushCalls = FlushCount(f.at - 1, len),
                             !.flushed = before,
                             !.moved = SubSeq(tr, 1, before)]
          [] f.kind = "flush" ->
                [base EXCEPT !.pressIssued = 1, !.moveCalls = f.at,
                             !.flushCalls = FlushCount(f.at, len),
                             !.flushed = before,
                             !.moved = SubSeq(tr, 1, before)]
          [] f.kind = "release" ->
                [base EXCEPT !.pressIssued = 1, !.moveCalls = len,
                             !.flushCalls = FlushCount(len, len),
                             !.flushed = Delivered(len, len),
                             !.moved = SubSeq(tr, 1, Delivered(len, len)),
                             !.releaseCalls = 1]
          [] OTHER ->
                [base EXCEPT !.pressIssued = 1, !.moveCalls = len,
                             !.flushCalls = FlushCount(len, len),
                             !.flushed = Delivered(len, len),
                             !.moved = tr, !.releaseCalls = 1,
                             !.releaseIssued = 1]
    IN  [r EXCEPT !.ret = DragReturn(f.kind),
                  !.surface = SurfaceLog(r.pressIssued > 0, r.moved, r.releaseIssued > 0)]

DragFinallyNothing(r) == r

\* Lines 266-270, the finally block: action.release() queues a release on the
\* chain; no perform() follows, so nothing reaches the surface.
DragFinally(r) == [r EXCEPT !.releaseCalls = @ + 1]

drag_slider(tr, f) ==
    IF ~LocateHandle(f)
    THEN [NoDrag EXCEPT !.called = TRUE, !.kind = "handle", !.raised = TRUE]
    ELSE DragFinally(DragTry(tr, f))

\* The pointer of the surface after a drag_slider call.
PointerAfter(down, r) ==
    IF r.releaseIssued > 0 THEN FALSE
    ELSE IF r.pressIssued > 0 THEN TRUE
    ELSE down

\* ------------------------------------------------- handle_slider_captcha
\* distance = result['target'][0]; distance += settings.SLIDER_DISTANCE_OFFSET
recognize_distance(m) == m + SLIDER_DISTANCE_OFFSET

\* calculate_scale_ratio: the ratio of the script when it reports success,
\* 1.0 when the element is missing, the native width is 0, the script
\* returns nothing or execute_script raises.
ScaleOutcomes == {"ok", "no_element", "zero_width", "empty", "raise"}
calculate_scale_ratioZero(kind, r) == IF kind = "ok" THEN r ELSE 0

calculate_scale_ratio(kind, r) == IF kind = "ok" THEN r ELSE DefaultRatio

AfterRecognizeMin(d) == IF d < 20 THEN "loop" ELSE "correct"

\* if distance < 20: print(warning); the attempt goes on whatever the distance.
AfterRecognize(d) == "correct"

\* Python round(distance * scale_ratio).
AdjustDistanceRound(d, r) == PyRound(d * r)

\* adjusted_distance = int(distance * scale_ratio): truncation toward zero.
AdjustDistance(d, r) ==
    IF d * r >= 0 THEN (d * r) \div Q ELSE -((-(d * r)) \div Q)

FinalDistanceAdded(adjusted, margin) == adjusted + margin

\* final_distance = adjusted_distance - settings.SLIDER_SAFE_MARGIN
FinalDistance(adjusted, margin) == adjusted - margin

HasNextAttemptShort(a, n) == a < n - 1

HasNextAttemptLong(a, n) == a <= n

\* for attempt in range(1, max_attempts + 1): another value follows a.
HasNextAttempt(a, n) == a < n

AfterVerifyRetry(gone) == "loop"

\* if self.verify_result(): return True
AfterVerify(gone) == IF gone THEN "done" ELSE "loop"

WaitResultContinue(appeared) == [pc |-> "loop", outcome |-> "none"]

WaitResultRaise(appeared) ==
    IF appeared THEN [pc |-> "loop", outcome |-> "none"]
    ELSE [pc |-> "done", outcome |-> "raised"]

\* Lines 308-317: the popup appeared, or the wait timed out and
\* `except Exception: ... return False` ends the call.
WaitResult(appeared) ==
    IF appeared THEN [pc |-> "loop", outcome |-> "none"]
    ELSE [pc |-> "done", outcome |-> "false"]

FetchedImagesStale(ok, id, old) == IF ok THEN id ELSE old

\* bg_bytes, slider_bytes = self.get_slider_images_from_api(): the pair
\* fetched by this call, or (None, None).
FetchedImages(ok, id, old) == IF ok THEN id ELSE 0

ImagesMissingNever(img) == FALSE

\* if not bg_bytes or not slider_bytes: ... continue
ImagesMissing(img) == img = 0

AfterSynthesizeAlways(tr) == "drag"

\* if not track: ... continue
AfterSynthesize(tr) == IF tr = <<>> THEN "loop" ELSE "drag"

AfterDragIgnore(r) == IF r.raised THEN "done" ELSE "verify"

\* if not self.drag_slider(track): ... continue; an exception of drag_slider
\* ends the call.
AfterDrag(r) == IF r.raised THEN "done" ELSE IF ~r.ret THEN "loop" ELSE "verify"

\* ------------------------------------------------------------- main.py
NumAccounts == 2       \* number of entries of settings.ACCOUNTS
Accounts == 1..NumAccounts

\* One account worker before its thread is started.
NewAccount ==
    [pc |-> "new", browser |-> "none", quits |-> 0, login |-> "none",
     ran |-> <<>>, failed |-> "none", captcha |-> "none", reserve |-> "none",
     success |-> FALSE]

\* The steps of ReservationHandler.reserve, in the order of its body.
ReserveSteps ==
    <<"enter_reservation_page", "select_room", "select_date", "select_seat",
      "confirm_reservation", "captcha", "verify_success">>

\* What a step can do: return True or False, or let an exception out (no
\* step and no helper call catches one: a wait that times out, a failing
\* click, and for handle_slider_captcha the matcher or the handle wait).
StepResults(step) == {"true", "false", "raised"}

StepEndsReserveLenient(step, res) == res = "false" /\ step # "captcha"

\* if not self.<step>(): return False
StepEndsReserve(step, res) == res = "false"

CanAcquireAlways(l) == TRUE

\* with results_lock: entered only while no thread holds the lock.
CanAcquire(l) == l = 0

\* Number of entries of the results collection written by account w.
Entries(res, w) == Cardinality({i \in 1..Len(res) : res[i].account = w})

\* The thread of account w is over: run_account returned or an exception
\* left it.
Over(a) == a.pc \in {"ended", "crashed"}

\* reservation_results = []; results_lock = threading.Lock(); no thread yet.
OrchIdle ==
    /\ acct = [w \in Accounts |-> NewAccount]
    /\ lock = 0
    /\ results = <<>>
    /\ mainp = [pc |-> "off", started |-> 0, joined |-> 0, total |-> 0, successful |-> 0]

\* ------------------------------------------------- wechat_notification.py
MaxRetries == 2        \* largest max_retries given to a notifier
MaxSends == 2          \* number of send calls made on one notifier

\* What one POST attempt can meet: a 200 reply with an errcode, another HTTP
\* status, asyncio.TimeoutError, or any other exception.
Replies ==
    {[kind |-> "reply", status |-> 200, errcode |-> e] : e \in {0, 93000, 93004, 45009}}
    \cup {[kind |-> "reply", status |-> 500, errcode |-> 0]}
    \cup {[kind |-> k, status |-> 0, errcode |-> 0] : k \in {"timeout", "exception"}}

\* response.status == 200 and result.get('errcode') == 0
Acknowledged(r) == r.kind = "reply" /\ r.status = 200 /\ r.errcode = 0

NoRetryFirstOnly(r) == r.kind = "reply" /\ r.status = 200 /\ r.errcode = 93000

\* response.status == 200, errcode != 0 and errcode in [93000, 93004]
NoRetry(r) == r.kind = "reply" /\ r.status = 200 /\ r.errcode \in {93000, 93004}

SleepBeforeNextAlways(a, n) == TRUE

\* if attempt < self.max_retries: await asyncio.sleep(1)
SleepBeforeNext(a, n) == a < n

ExhaustedFailedSame(f) == f

\* self.stats['failed_sent'] += 1 after the loop
ExhaustedFailed(f) == f + 1

NotifierIdle ==
    [configured |-> TRUE, max_retries |-> 0, pc |-> "idle", attempt |-> 0,
     total_sent |-> 0, success_sent |-> 0, failed_sent |-> 0,
     replies |-> <<>>, sleeps |-> 0, ret |-> "none", failed_before |-> 0,
     completed |-> 0, rejected |-> 0]

\* ------------------------------------- element_helper.py and select_seat
HelperRetries == 3     \* largest `retries` argument
MaxSeats == 3          \* longest list of candidate seats
SafeClickRetries == 3  \* default of safe_click's `retries`

SeatPool == {140, 141, 142}

RECURSIVE SeatListsOf(_)
SeatListsOf(n) ==
    IF n = 0 THEN {<<>>}
    ELSE LET shorter == SeatListsOf(n - 1)
         IN  shorter \cup {Append(l, x) : l \in {m \in shorter : Len(m) = n - 1}, x \in SeatPool}

\* Priority lists of distinct seat numbers.
SeatLists ==
    {l \in SeatListsOf(MaxSeats) : \A i, j \in 1..Len(l) : i # j => l[i] # l[j]}

\* wait_for_element: `element = wait.until(ec_condition); return element`.
\* WebDriverWait.until returns the condition's (truthy) value or raises
\* TimeoutException; nothing in the method catches it.
wait_for_element(met) == IF met THEN "element" ELSE "raised"

\* safe_click(element, description, retries): the locator branch (lines
\* 112-115), then the loop whose first iteration clicks and returns True;
\* the script call is not guarded, so a failing click raises.
safe_click(n, byLocator, met, clickOk) ==
    LET e == IF byLocator THEN wait_for_element(met) ELSE "element"
    IN  IF e = "raised" THEN [ret |-> "raised", clicks |-> 0]
        ELSE IF e # "element" THEN [ret |-> "false", clicks |-> 0]
        ELSE IF n = 0 THEN [ret |-> "false", clicks |-> 0]
        ELSE IF clickOk THEN [ret |-> "true", clicks |-> 1]
        ELSE [ret |-> "raised", clicks |-> 1]

HelperIdle ==
    [op |-> "idle", pc |-> "idle", retries |-> 0, attempt |-> 0, clicks |-> 0,
     sleeps |-> 0, failures |-> 0, ret |-> "none", byLocator |-> FALSE,
     met |-> FALSE, clickOk |-> FALSE, expected |-> FALSE,
     seats |-> <<>>, tried |-> <<>>, clicked |-> <<>>]

UtilIdle == notifier = NotifierIdle /\ helper = HelperIdle

NoCalls == [wait |-> 0, image |-> 0, recognize |-> 0, scale |-> 0,
            synthesize |-> 0, drag |-> 0, verify |-> 0]

\* The controller's state when handle_slider_captcha is entered.
CtlIdle ==
    /\ pc = "wait"
    /\ attempt = 0
    /\ outcome = "none"
    /\ images = 0
    /\ distance = 0
    /\ scale_ratio = DefaultRatio
    /\ final_distance = 0
    /\ track = <<>>
    /\ drag = NoDrag
    /\ pointerDown = FALSE
    /\ calls = NoCalls
    /\ stages = <<>>
    /\ recognized = 0
    /\ verified = "none"
    /\ fault = "none"
    /\ scale_query = "none"

Init ==
    /\ OrchIdle
    /\ UtilIdle
    /\ sim = SimIdle
    /\ max_attempts \in 0..MaxAttempts
    /\ safe_margin \in Margins
    /\ CtlIdle

\* Lines 307-317: bounded wait for the popup; a timeout is caught and ends
\* the call with False.
WaitForChallenge ==
    /\ pc = "wait"
    /\ \E appeared \in BOOLEAN :
        /\ calls' = [calls EXCEPT !.wait = @ + 1]
        /\ pc' = WaitResult(appeared).pc
        /\ outcome' = WaitResult(appeared).outcome
        /\ fault' = IF appeared THEN fault ELSE "no_challenge"
    /\ UNCHANGED <<util, orch, scale_query, sim, max_attempts, safe_margin, attempt, images, distance,
                   scale_ratio, final_distance, track, drag, pointerDown,
                   stages, recognized, verified>>

\* Line 319: the next iteration of the for loop.  The locals of the previous
\* iteration are dead here (each is assigned before it is read) and are put
\* back to their initial values; the image pair is kept until reassigned.
StartAttempt ==
    /\ pc = "loop"
    /\ HasNextAttempt(attempt, max_attempts)
    /\ attempt' = attempt + 1
    /\ pc' = "acquire"
    /\ distance' = 0
    /\ scale_ratio' = DefaultRatio
    /\ final_distance' = 0
    /\ track' = <<>>
    /\ drag' = NoDrag
    /\ stages' = <<>>
    /\ recognized' = 0
    /\ verified' = "none"
    /\ fault' = "none"
    /\ scale_query' = "none"
    /\ UNCHANGED <<util, orch, sim, max_attempts, safe_margin, outcome, images, pointerDown, calls>>

\* Lines 378-379: the loop is exhausted.
Exhausted ==
    /\ pc = "loop"
    /\ ~HasNextAttempt(attempt, max_attempts)
    /\ pc' = "done"
    /\ outcome' = "false"
    /\ UNCHANGED <<util, orch, scale_query, sim, max_attempts, safe_margin, attempt, images, distance,
                   scale_ratio, final_distance, track, drag, pointerDown, calls,
                   stages, recognized, verified, fault>>

\* Lines 322-327: get_slider_images_from_api returns a pair or (None, None).
GetImages ==
    /\ pc = "acquire"
    /\ \E ok \in BOOLEAN :
        /\ calls' = [calls EXCEPT !.image = @ + 1]
        /\ images' = FetchedImages(ok, calls.image + 1, images)
        /\ stages' = Append(stages, "acquire")
        /\ pc' = IF ImagesMissing(images') THEN "loop" ELSE "recognize"
        /\ fault' = IF ok THEN fault ELSE "no_images"
    /\ UNCHANGED <<util, orch, scale_query, sim, max_attempts, safe_margin, attempt, outcome, distance,
                   scale_ratio, final_distance, track, drag, pointerDown,
                   recognized, verified>>

\* Lines 329-336: recognize_distance has no handler and neither has its
\* caller, so an exception of slide_match leaves handle_slider_captcha.
Recognize ==
    /\ pc = "recognize"
    /\ calls' = [calls EXCEPT !.recognize = @ + 1]
    /\ recognized' = images
    /\ stages' = Append(stages, "recognize")
    /\ \/ \E m \in MatchOffsets :
            /\ distance' = recognize_distance(m)
            /\ pc' = AfterRecognize(distance')
            /\ UNCHANGED <<outcome, fault>>
       \/ /\ pc' = "done"
          /\ outcome' = "raised"
          /\ fault' = "matcher"
          /\ UNCHANGED distance
    /\ UNCHANGED <<util, orch, scale_query, sim, max_attempts, safe_margin, attempt, images, scale_ratio,
                   final_distance, track, drag, pointerDown, verified>>

\* Lines 338-350: scale ratio, adjusted distance, safety margin.
Correct ==
    /\ pc = "correct"
    /\ \E kind \in ScaleOutcomes, r \in Ratios :
        /\ scale_query' = kind
        /\ scale_ratio' = calculate_scale_ratio(kind, r)
        /\ final_distance' = FinalDistance(AdjustDistance(distance, scale_ratio'), safe_margin)
    /\ calls' = [calls EXCEPT !.scale = @ + 1]
    /\ stages' = Append(stages, "correct")
    /\ pc' = "synthesize"
    /\ UNCHANGED <<util, orch, sim, max_attempts, safe_margin, attempt, outcome, images,
                   distance, track, drag, pointerDown, recognized, verified, fault>>

\* Lines 352-359: generate_track; an empty track ends the attempt.
Synthesize ==
    /\ pc = "synthesize"
    /\ track' = generate_track(final_distance)
    /\ calls' = [calls EXCEPT !.synthesize = @ + 1]
    /\ stages' = Append(stages, "synthesize")
    /\ pc' = AfterSynthesize(track')
    /\ fault' = IF track' = <<>> THEN "empty_track" ELSE fault
    /\ UNCHANGED <<util, orch, scale_query, sim, max_attempts, safe_margin, attempt, outcome, images,
                   distance, scale_ratio, final_distance, drag, pointerDown,
                   recognized, verified>>

\* Lines 361-365: drag_slider; False ends the attempt, an exception ends the call.
Drag ==
    /\ pc = "drag"
    /\ \E f \in DragFaults(track) :
        LET r == drag_slider(track, f) IN
        /\ drag' = r
        /\ pointerDown' = PointerAfter(pointerDown, r)
        /\ pc' = AfterDrag(r)
        /\ outcome' = IF r.raised THEN "raised" ELSE outcome
        /\ fault' = IF r.raised THEN "handle" ELSE IF ~r.ret THEN "drag" ELSE fault
    /\ calls' = [calls EXCEPT !.drag = @ + 1]
    /\ stages' = Append(stages, "drag")
    /\ UNCHANGED <<util, orch, scale_query, sim, max_attempts, safe_margin, attempt, images, distance,
                   scale_ratio, final_distance, track, recognized, verified>>

\* Lines 369-376: verify_result is True when the popup is gone.
Verify ==
    /\ pc = "verify"
    /\ \E gone \in BOOLEAN :
        /\ verified' = IF gone THEN "absent" ELSE "present"
        /\ pc' = AfterVerify(gone)
        /\ IF pc' = "done"
           THEN outcome' = "true" /\ UNCHANGED fault
           ELSE fault' = "verify" /\ UNCHANGED outcome
    /\ calls' = [calls EXCEPT !.verify = @ + 1]
    /\ stages' = Append(stages, "verify")
    /\ UNCHANGED <<util, orch, scale_query, sim, max_attempts, safe_margin, attempt, images, distance,
                   scale_ratio, final_distance, track, drag, pointerDown, recognized>>

Next ==
    \/ WaitForChallenge
    \/ StartAttempt
    \/ Exhausted
    \/ GetImages
    \/ Recognize
    \/ Correct
    \/ Synthesize
    \/ Drag
    \/ Verify

Spec == Init /\ [][Next]_vars

\* --------------------------------------------------- generate_track, stepwise
InitTrack ==
    /\ OrchIdle
    /\ UtilIdle
    /\ sim \in {[SimIdle EXCEPT !.target = d] : d \in (0 - NegDist)..MaxDist}
    /\ max_attempts = 0
    /\ safe_margin = 0
    /\ CtlIdle

\* Lines 140-154: the early return and the set-up of the loop.
TrackEntry ==
    /\ sim.phase = "idle"
    /\ sim' = IF EarlyReturn(sim.target)
              THEN [SimIdle EXCEPT !.phase = "done", !.target = sim.target]
              ELSE SimInit(sim.target)
    /\ UNCHANGED <<ctl, orch, util>>

\* Lines 156-168.
TrackStep ==
    /\ sim.phase = "loop"
    /\ LoopContinues(sim)
    /\ sim' = SimStep(sim)
    /\ UNCHANGED <<ctl, orch, util>>

\* Lines 170-177.
TrackFinish ==
    /\ sim.phase = "loop"
    /\ ~LoopContinues(sim)
    /\ sim' = SimFinish(sim)
    /\ UNCHANGED <<ctl, orch, util>>

NextTrack == TrackEntry \/ TrackStep \/ TrackFinish

SpecTrack == InitTrack /\ [][NextTrack]_vars

\* ------------------------------------------------------- main.py, threads
InitMain ==
    /\ UtilIdle
    /\ sim = SimIdle
    /\ max_attempts = 0
    /\ safe_margin = 0
    /\ CtlIdle
    /\ acct = [w \in Accounts |-> NewAccount]
    /\ lock = 0
    /\ results = <<>>
    /\ mainp = [pc |-> "start", started |-> 0, joined |-> 0, total |-> 0, successful |-> 0]

\* os._exit(1) has not ended the process.
Alive == mainp.pc # "killed"

\* main, lines 228-240: thread.start() for the accounts in list order.
StartThread ==
    /\ mainp.pc = "start"
    /\ mainp.started < NumAccounts
    /\ acct' = [acct EXCEPT ![mainp.started + 1].pc = "create"]
    /\ mainp' = [mainp EXCEPT !.started = @ + 1,
                              !.pc = IF mainp.started + 1 = NumAccounts THEN "join" ELSE "start"]
    /\ UNCHANGED <<util, ctl, sim, lock, results>>

\* run_account, line 74: create_driver returns the driver or raises.
CreateDriver(w) ==
    /\ Alive
    /\ acct[w].pc = "create"
    /\ \E ok \in BOOLEAN :
          acct' = [acct EXCEPT ![w].browser = IF ok THEN "open" ELSE "none",
                               ![w].pc = IF ok THEN "login" ELSE "crashed"]
    /\ UNCHANGED <<util, ctl, sim, lock, results, mainp>>

\* run_account, line 103: login returns True or False.
Login(w) ==
    /\ Alive
    /\ acct[w].pc = "login"
    /\ \E ok \in BOOLEAN :
          acct' = [acct EXCEPT ![w].login = IF ok THEN "true" ELSE "false",
                               ![w].pc = IF ok THEN "reserve" ELSE "login_quit"]
    /\ UNCHANGED <<util, ctl, sim, lock, results, mainp>>

\* BrowserManager.quit_driver: if self.driver: self.driver.quit(); self.driver = None
quit_driver(a) ==
    IF a.browser = "open" THEN [a EXCEPT !.browser = "closed", !.quits = @ + 1] ELSE a

\* run_account, line 107 (login failed) and line 177 (end of the function).
QuitDriver(w) ==
    /\ Alive
    /\ acct[w].pc \in {"login_quit", "quit"}
    /\ acct' = [acct EXCEPT ![w] =
                  [quit_driver(@) EXCEPT !.pc = IF acct[w].pc = "login_quit"
                                                THEN "login_acquire" ELSE "ended"]]
    /\ UNCHANGED <<util, ctl, sim, lock, results, mainp>>

\* `with results_lock:` entered (lines 110 and 169).
Acquire(w) ==
    /\ Alive
    /\ acct[w].pc \in {"login_acquire", "acquire"}
    /\ CanAcquire(lock)
    /\ lock' = w
    /\ acct' = [acct EXCEPT ![w].pc = IF acct[w].pc = "acquire" THEN "append" ELSE "login_append"]
    /\ UNCHANGED <<util, ctl, sim, results, mainp>>

\* reservation_results.append(result) (lines 111 and 170).
AppendResult(w) ==
    /\ Alive
    /\ acct[w].pc \in {"login_append", "append"}
    /\ results' = Append(results, [account |-> w, success |-> acct[w].success])
    /\ acct' = [acct EXCEPT ![w].pc = IF acct[w].pc = "append" THEN "release" ELSE "login_release"]
    /\ UNCHANGED <<util, ctl, sim, lock, mainp>>

\* The with block is left; after a failed login the function returns
\* (line 126), otherwise it goes on to quit_driver (line 177).
Release(w) ==
    /\ Alive
    /\ acct[w].pc \in {"login_release", "release"}
    /\ lock' = 0
    /\ acct' = [acct EXCEPT ![w].pc = IF acct[w].pc = "release" THEN "quit" ELSE "ended"]
    /\ UNCHANGED <<util, ctl, sim, results, mainp>>

\* ReservationHandler.reserve, lines 281-311: the next step of the body. An
\* exception out of a step leaves reserve and run_account.
ReserveStep(w) ==
    /\ Alive
    /\ acct[w].pc = "reserve"
    /\ LET a == acct[w]
           step == ReserveSteps[Len(a.ran) + 1]
       IN  \E res \in StepResults(step) :
             acct' = [acct EXCEPT ![w] =
                [a EXCEPT !.ran = Append(@, step),
                          !.captcha = IF step = "captcha" THEN res ELSE @,
                          !.failed = IF res = "true" THEN @ ELSE step,
                          !.reserve = IF res = "raised" THEN "raised"
                                      ELSE IF StepEndsReserve(step, res) THEN "false"
                                      ELSE IF Len(a.ran) + 1 = Len(ReserveSteps) THEN "true"
                                      ELSE @,
                          !.pc = IF res = "raised" THEN "crashed"
                                 ELSE IF StepEndsReserve(step, res)
                                         \/ Len(a.ran) + 1 = Len(ReserveSteps) THEN "after"
                                 ELSE @]]
    /\ UNCHANGED <<util, ctl, sim, lock, results, mainp>>

\* run_account, lines 130-166. On success line 131 sets result['success']
\* and line 132 calls .get on the bool that reserve returned: AttributeError
\* leaves run_account.
AfterReserve(w) ==
    /\ Alive
    /\ acct[w].pc = "after"
    /\ acct' = [acct EXCEPT ![w].success = (acct[w].reserve = "true"),
                            ![w].pc = IF acct[w].reserve = "true" THEN "crashed" ELSE "acquire"]
    /\ UNCHANGED <<util, ctl, sim, lock, results, mainp>>

\* main, lines 248-249: thread.join() in list order.
Join ==
    /\ mainp.pc = "join"
    /\ mainp.joined < NumAccounts
    /\ Over(acct[mainp.joined + 1])
    /\ mainp' = [mainp EXCEPT !.joined = @ + 1,
                              !.pc = IF mainp.joined + 1 = NumAccounts THEN "summary" ELSE "join"]
    /\ UNCHANGED <<util, ctl, sim, acct, lock, results>>

\* main, lines 265-266: the summary counts the entries of the collection.
Summary ==
    /\ mainp.pc = "summary"
    /\ mainp' = [mainp EXCEPT !.pc = "done",
                              !.total = Len(results),
                              !.successful = Cardinality({i \in 1..Len(results) : results[i].success})]
    /\ UNCHANGED <<util, ctl, sim, acct, lock, results>>

\* force_exit, lines 180-183: the timer started at line 224 fires before it
\* is cancelled and os._exit(1) ends every thread where it stands.
ForceExit ==
    /\ mainp.pc \in {"start", "join"}
    /\ mainp' = [mainp EXCEPT !.pc = "killed"]
    /\ UNCHANGED <<util, ctl, sim, acct, lock, results>>

NextMain ==
    \/ StartThread
    \/ \E w \in Accounts : CreateDriver(w)
    \/ \E w \in Accounts : Login(w)
    \/ \E w \in Accounts : QuitDriver(w)
    \/ \E w \in Accounts : Acquire(w)
    \/ \E w \in Accounts : AppendResult(w)
    \/ \E w \in Accounts : Release(w)
    \/ \E w \in Accounts : ReserveStep(w)
    \/ \E w \in Accounts : AfterReserve(w)
    \/ Join
    \/ Summary
    \/ ForceExit

SpecMain == InitMain /\ [][NextMain]_vars

\* generate_track is straight-line sequential code: a call that can take a
\* step takes it.
SpecTrackFair == InitTrack /\ [][NextTrack]_vars /\ WF_vars(NextTrack)

\* ------------------------------------------ WeChatWorkNotifier, one notifier
InitNotify ==
    /\ OrchIdle
    /\ sim = SimIdle
    /\ max_attempts = 0
    /\ safe_margin = 0
    /\ CtlIdle
    /\ helper = HelperIdle
    /\ \E c \in BOOLEAN, n \in 0..MaxRetries :
          notifier = [NotifierIdle EXCEPT !.configured = c, !.max_retries = n]

\* send_text_message / send_markdown_message, lines 72-77 and 106-111: a
\* notifier that is not configured returns NOT_CONFIGURED at once.
SendRejected ==
    /\ notifier.pc = "idle"
    /\ ~notifier.configured
    /\ notifier.rejected < MaxSends
    /\ notifier' = [notifier EXCEPT !.ret = "not_configured", !.rejected = @ + 1]
    /\ UNCHANGED <<ctl, sim, orch, helper>>

\* _send_message, line 132, and the entry of the loop.
SendStart ==
    /\ notifier.pc = "idle"
    /\ notifier.configured
    /\ notifier.completed < MaxSends
    /\ notifier' = [notifier EXCEPT !.pc = "sending", !.total_sent = @ + 1,
                                    !.attempt = 0, !.replies = <<>>, !.sleeps = 0,
                                    !.ret = "none", !.failed_before = notifier.failed_sent]
    /\ UNCHANGED <<ctl, sim, orch, helper>>

\* _send_message, lines 134-180: one iteration of the loop.
PostAttempt ==
    /\ notifier.pc = "sending"
    /\ notifier.attempt < notifier.max_retries
    /\ \E r \in Replies :
          LET a == notifier.attempt + 1
              n == [notifier EXCEPT !.attempt = a, !.replies = Append(@, r)]
          IN  notifier' =
                IF Acknowledged(r)
                THEN [n EXCEPT !.success_sent = @ + 1, !.ret = "success",
                               !.pc = "idle", !.completed = @ + 1]
                ELSE IF NoRetry(r)
                THEN [n EXCEPT !.failed_sent = @ + 1, !.ret = "no_retry",
                               !.pc = "idle", !.completed = @ + 1]
                ELSE [n EXCEPT !.sleeps = IF SleepBeforeNext(a, notifier.max_retries)
                                          THEN @ + 1 ELSE @]
    /\ UNCHANGED <<ctl, sim, orch, helper>>

\* _send_message, lines 182-188: every attempt failed.
SendExhausted ==
    /\ notifier.pc = "sending"
    /\ ~(notifier.attempt < notifier.max_retries)
    /\ notifier' = [notifier EXCEPT !.failed_sent = ExhaustedFailed(@), !.ret = "send_failed",
                                    !.pc = "idle", !.completed = @ + 1]
    /\ UNCHANGED <<ctl, sim, orch, helper>>

NextNotify == SendRejected \/ SendStart \/ PostAttempt \/ SendExhausted

SpecNotify == InitNotify /\ [][NextNotify]_vars

\* --------------------------------------------- ElementHelper, select_seat
InitHelper ==
    /\ OrchIdle
    /\ sim = SimIdle
    /\ max_attempts = 0
    /\ safe_margin = 0
    /\ CtlIdle
    /\ notifier = NotifierIdle
    /\ helper = HelperIdle

\* One call of wait_for_element, lines 54-70.
WaitForElement ==
    /\ helper.op = "idle"
    /\ \E met \in BOOLEAN :
          helper' = [helper EXCEPT !.op = "wait_for_element", !.pc = "done",
                                  !.met = met, !.ret = wait_for_element(met)]
    /\ UNCHANGED <<ctl, sim, orch, notifier>>

\* One call of safe_click, lines 112-128.
SafeClick ==
    /\ helper.op = "idle"
    /\ \E n \in 0..HelperRetries, byLocator \in BOOLEAN, met \in BOOLEAN, clickOk \in BOOLEAN :
          LET r == safe_click(n, byLocator, met, clickOk)
          IN  helper' = [helper EXCEPT !.op = "safe_click", !.pc = "done", !.retries = n,
                                      !.byLocator = byLocator, !.met = met, !.clickOk = clickOk,
                                      !.clicks = r.clicks, !.ret = r.ret,
                                      !.failures = IF r.ret = "true" THEN 0 ELSE r.clicks]
    /\ UNCHANGED <<ctl, sim, orch, notifier>>

\* click_and_wait is called with `retries`.
ClickAndWaitStart ==
    /\ helper.op = "idle"
    /\ \E n \in 0..HelperRetries :
          helper' = [helper EXCEPT !.op = "click_and_wait", !.pc = "loop", !.retries = n]
    /\ UNCHANGED <<ctl, sim, orch, notifier>>

\* The attempt with loop index a failed without an exception: sleep and go
\* on when another attempt remains (lines 160-162, 167-169, 182-183).
AttemptFailedQuietly(h, endsCall) ==
    IF h.attempt < h.retries - 1
    THEN [h EXCEPT !.sleeps = @ + 1, !.attempt = @ + 1, !.failures = @ + 1]
    ELSE IF endsCall
    THEN [h EXCEPT !.attempt = @ + 1, !.failures = @ + 1, !.ret = "false", !.pc = "done"]
    ELSE [h EXCEPT !.attempt = @ + 1, !.failures = @ + 1]

\* click_and_wait, lines 151-183: one iteration of the loop.
ClickAndWaitAttempt ==
    /\ helper.op = "click_and_wait"
    /\ helper.pc = "loop"
    /\ helper.attempt < helper.retries
    /\ \E met \in BOOLEAN, clickOk \in BOOLEAN, expected \in BOOLEAN :
          LET h == [helper EXCEPT !.met = met, !.clickOk = clickOk, !.expected = FALSE]
              raised == [h EXCEPT !.attempt = @ + 1, !.failures = @ + 1,
                                  !.ret = "raised", !.pc = "done"]
              e1 == wait_for_element(met)
              sc == safe_click(SafeClickRetries, FALSE, TRUE, clickOk)
              e2 == wait_for_element(expected)
          IN  helper' =
                IF e1 = "raised" THEN raised
                ELSE IF e1 # "element" THEN AttemptFailedQuietly(h, TRUE)
                ELSE IF sc.ret = "raised" THEN [raised EXCEPT !.clicks = @ + sc.clicks]
                ELSE IF sc.ret = "false"
                THEN AttemptFailedQuietly([h EXCEPT !.clicks = @ + sc.clicks], TRUE)
                ELSE IF e2 = "raised" THEN [raised EXCEPT !.clicks = @ + sc.clicks]
                ELSE IF e2 = "element"
                THEN [h EXCEPT !.clicks = @ + sc.clicks, !.attempt = @ + 1,
                               !.expected = TRUE, !.ret = "true", !.pc = "done"]
                ELSE AttemptFailedQuietly([h EXCEPT !.clicks = @ + sc.clicks], FALSE)
    /\ UNCHANGED <<ctl, sim, orch, notifier>>

\* click_and_wait, line 185: the loop is over.
ClickAndWaitExhaust ==
    /\ helper.op = "click_and_wait"
    /\ helper.pc = "loop"
    /\ ~(helper.attempt < helper.retries)
    /\ helper' = [helper EXCEPT !.ret = "false", !.pc = "done"]
    /\ UNCHANGED <<ctl, sim, orch, notifier>>

\* select_seat is called with a priority list.
SelectSeatStart ==
    /\ helper.op = "idle"
    /\ \E l \in SeatLists :
          helper' = [helper EXCEPT !.op = "select_seat", !.pc = "loop", !.seats = l]
    /\ UNCHANGED <<ctl, sim, orch, notifier>>

\* select_seat, lines 186-206: one iteration of the loop.
SelectSeatCandidate ==
    /\ helper.op = "select_seat"
    /\ helper.pc = "loop"
    /\ Len(helper.tried) < Len(helper.seats)
    /\ \E met \in BOOLEAN, clickOk \in BOOLEAN :
          LET seat == helper.seats[Len(helper.tried) + 1]
              h == [helper EXCEPT !.tried = Append(@, seat), !.met = met, !.clickOk = clickOk]
              e == wait_for_element(met)
              sc == safe_click(SafeClickRetries, FALSE, TRUE, clickOk)
          IN  helper' =
                IF e = "raised" THEN [h EXCEPT !.ret = "raised", !.pc = "done"]
                ELSE IF e # "element" THEN h
                ELSE IF sc.ret = "raised"
                THEN [h EXCEPT !.clicks = @ + sc.clicks, !.ret = "raised", !.pc = "done"]
                ELSE IF sc.ret = "false" THEN [h EXCEPT !.clicks = @ + sc.clicks]
                ELSE [h EXCEPT !.clicks = @ + sc.clicks, !.clicked = Append(@, seat),
                               !.ret = "true", !.pc = "done"]
    /\ UNCHANGED <<ctl, sim, orch, notifier>>

\* select_seat, lines 208-209: no candidate is left.
SelectSeatExhaust ==
    /\ helper.op = "select_seat"
    /\ helper.pc = "loop"
    /\ Len(helper.tried) = Len(helper.seats)
    /\ helper' = [helper EXCEPT !.ret = "false", !.pc = "done"]
    /\ UNCHANGED <<ctl, sim, orch, notifier>>

NextHelper ==
    \/ WaitForElement
    \/ SafeClick
    \/ ClickAndWaitStart
    \/ ClickAndWaitAttempt
    \/ ClickAndWaitExhaust
    \/ SelectSeatStart
    \/ SelectSeatCandidate
    \/ SelectSeatExhaust

SpecHelper == InitHelper /\ [][NextHelper]_vars

\* ------------------------------------------------------------------ claims

\* C1: for every integer target distance d >= 0, the increments returned by
\* generate_track(d) sum to exactly d.
C1_TrackSum ==
    (sim.phase = "done" /\ sim.target >= 0) => SumSeq(sim.track) = sim.target

\* The remainder correction had to add a pixel to the last step.
C1_Witness == sim.phase = "done" /\ sim.target > 0 /\ sim.delta # 0
              /\ SumSeq(sim.track) = sim.target

\* C2: for every integer target distance d > 0, generate_track(d) is
\* non-empty and every increment in it is an integer >= 1.
C2_TrackPositive ==
    (sim.phase = "done" /\ sim.target > 0) =>
        /\ Len(sim.track) >= 1
        /\ \A i \in 1..Len(sim.track) : sim.track[i] \in Nat /\ sim.track[i] >= 1

\* A collected step of 0.5 rounds to 0 and is floored at 1.
C2_Witness == /\ sim.phase = "done" /\ sim.target > 0
              /\ \E i \in 1..Len(sim.raw_track) : PyRound(sim.raw_track[i]) = 0
              /\ \A i \in 1..Len(sim.track) : sim.track[i] >= 1

\* The stage x was carried out in the current attempt.
Staged(x) == \E i \in 1..Len(stages) : stages[i] = x

\* C3: a run with max_attempts = N in which every attempt reaches
\* verification and every verification reports the popup still present calls
\* the Image Source exactly N times and the verifier exactly N times, then
\* returns failure without raising.
C3_RetryBound ==
    (pc = "done" /\ fault # "no_challenge" /\ outcome # "true"
       /\ calls.verify = attempt) =>
        /\ calls.image = max_attempts
        /\ calls.verify = max_attempts
        /\ outcome = "false"

\* Two attempts, both verified and both rejected.
C3_Witness == /\ pc = "done" /\ outcome = "false" /\ max_attempts >= 2
              /\ calls.verify = max_attempts /\ calls.image = max_attempts

\* C4: for every max_attempts N >= 0 and every mix of per-attempt outcomes
\* (empty images, empty trajectory, drag reported failed, verification
\* failed), at most N attempts are started, and when none succeeds the call
\* ends after exactly N attempts by returning failure, never by raising.
C4_Exhaustion ==
    /\ attempt <= max_attempts
    /\ (pc = "done" /\ outcome # "true"
          /\ fault \in {"none", "no_images", "empty_track", "drag", "verify"}) =>
            (outcome = "false" /\ attempt = max_attempts)

\* Two failed attempts of different kinds: one without images, one whose
\* drag was reported failed.
C4_Witness == /\ pc = "done" /\ outcome = "false" /\ attempt = 2
              /\ max_attempts = 2 /\ calls.image = 2 /\ calls.recognize = 1
              /\ fault = "drag"

\* C5: if the recognizer's matcher raises during an attempt, the failure is
\* absorbed inside the controller loop: handle_slider_captcha does not raise
\* and the attempt counts as failed.
C5_MatcherAbsorbed == fault = "matcher" => outcome # "raised"

\* C6: if the drag handle cannot be located, drag_slider reports failure
\* (issuing no press) instead of raising, and the controller does not raise.
C6_HandleMissingRetryable ==
    (drag.called /\ drag.kind = "handle") =>
        (~drag.raised /\ drag.pressCalls = 0 /\ outcome # "raised")

\* C7: if a move or flush step of drag_slider raises mid-sequence, the
\* release operation is still invoked exactly once and drag_slider reports
\* failure instead of raising.
C7_ReleaseInvokedOnce ==
    (drag.called /\ drag.kind \in {"move", "flush"}) =>
        (drag.releaseCalls = 1 /\ ~drag.raised /\ ~drag.ret)

\* A flush raised after a first batch of moves had been delivered.
C7_Witness == /\ drag.called /\ drag.kind = "flush" /\ drag.pressIssued = 1
              /\ Len(drag.moved) >= BatchSize /\ drag.moveCalls > Len(drag.moved)
              /\ drag.releaseCalls = 1 /\ ~drag.ret

\* C8: on every exit path of drag_slider taken after the press was issued, a
\* release is issued to the Automation Surface before drag_slider returns, so
\* the pointer is never left pressed.
C8_ReleaseIssued ==
    (drag.called /\ drag.pressIssued > 0) =>
        (drag.releaseIssued >= 1 /\ ~pointerDown)

\* C9: as soon as a verification reports the popup absent,
\* handle_slider_captcha returns success, and no Image Source, recognizer,
\* drag or verifier call happens after that verification.
C9_SuccessEndsRun ==
    /\ [](verified = "absent" => (pc = "done" /\ outcome = "true"))
    /\ [][verified = "absent" => calls' = calls]_vars

\* Success in the first of two attempts.
C9_Witness == /\ verified = "absent" /\ pc = "done" /\ outcome = "true"
              /\ attempt = 1 /\ max_attempts = 2 /\ calls.verify = 1

\* C10 as stated: the target handed to the trajectory synthesizer is
\* round(raw_offset * scale_ratio) - safety_margin.
C10_TargetRounded ==
    Staged("synthesize") =>
        final_distance = PyRound(distance * scale_ratio) - safe_margin

\* C10 as amended: the target handed to the trajectory synthesizer is
\* raw_offset * scale_ratio with its fractional part dropped (truncation
\* toward zero), minus safety_margin; (100, 1.0, 0) gives 100 and
\* (100, 0.5, 5) gives 45.
C10_TargetTruncated ==
    Staged("synthesize") =>
        LET p == distance * scale_ratio
            adjusted == final_distance + safe_margin
        IN  /\ p >= 0 => (Q * adjusted <= p /\ p < Q * adjusted + Q)
            /\ p < 0 => (Q * adjusted >= p /\ p > Q * adjusted - Q)
            /\ SumSeq(track) = Max(0, final_distance)
            /\ (distance = 100 /\ scale_ratio = 4 /\ safe_margin = 0) => final_distance = 100
            /\ (distance = 100 /\ scale_ratio = 2 /\ safe_margin = 5) => final_distance = 45

\* 5 * 0.75 = 3.75 is handed on as 3, not 4.
C10_Witness == /\ Staged("synthesize") /\ distance = 5 /\ scale_ratio = 3
               /\ safe_margin = 0 /\ final_distance = 3 /\ SumSeq(track) = 3

\* The call returned False because the loop ran out of attempts.
ExhaustedFalse == pc = "done" /\ outcome = "false" /\ attempt = max_attempts

\* C11: if the challenge surface does not appear within the bounded wait,
\* handle_slider_captcha ends in failure without consuming an attempt: the
\* Image Source, recognizer, drag executor and verifier are never called.
C11_NoChallengeNoAttempt ==
    fault = "no_challenge" =>
        /\ pc = "done" /\ outcome = "false"
        /\ attempt = 0
        /\ calls.image = 0 /\ calls.recognize = 0 /\ calls.scale = 0
        /\ calls.synthesize = 0 /\ calls.drag = 0 /\ calls.verify = 0

\* The wait timed out although attempts were allowed.
C11_Witness == /\ fault = "no_challenge" /\ pc = "done" /\ max_attempts >= 1
               /\ calls.wait = 1 /\ calls.image = 0

\* C12 as stated: a challenge that never appears leaves the entry point as a
\* fatal condition, an outcome the caller can tell apart from the boolean
\* failure that reports exhausted attempts.
C12_NoChallengeEscalated ==
    (pc = "done" /\ fault = "no_challenge") => outcome # "false"

\* C12 as amended: a challenge that never appears ends the call by returning
\* False, the very value that reports exhausted attempts; nothing is raised.
C12_NoChallengeReturnsFalse ==
    /\ (pc = "done" /\ fault = "no_challenge") => outcome = "false"
    /\ (pc = "done" /\ fault \in {"none", "no_images", "empty_track", "drag", "verify"}
          /\ outcome # "true") => outcome = "false"

\* The wait timed out with max_attempts = 0: the same False as an exhausted loop.
C12_Witness == /\ pc = "done" /\ fault = "no_challenge" /\ outcome = "false"
               /\ max_attempts = 0

\* The current attempt has ended as a failed one: the loop goes on to the
\* next attempt when one remains, and otherwise the call returns False.
AttemptFailed ==
    \/ pc = "loop" /\ (attempt < max_attempts => ENABLED StartAttempt)
    \/ ExhaustedFalse

StageOrder == <<"acquire", "recognize", "correct", "synthesize", "drag", "verify">>

\* C13: within every attempt the stages run in the order image acquisition,
\* recognition, scale correction, trajectory synthesis, drag, verification; a
\* stage starts only after the previous stage of the same attempt completed
\* successfully, and no stage of the next attempt starts before the current
\* attempt has ended.
C13_StageOrder ==
    /\ [](/\ Len(stages) <= Len(StageOrder)
          /\ stages = SubSeq(StageOrder, 1, Len(stages))
          /\ Len(stages) >= 2 => (images # 0 /\ recognized = images)
          /\ Len(stages) >= 3 => fault # "matcher"
          /\ Len(stages) >= 5 => track # <<>>
          /\ Len(stages) >= 6 => (drag.called /\ drag.ret /\ ~drag.raised))
    /\ [][attempt' # attempt =>
            (pc = "loop" /\ attempt' = attempt + 1 /\ stages' = <<>>)]_vars

\* A second attempt that went through all six stages.
C13_Witness == stages = StageOrder /\ attempt = 2 /\ calls.verify = 2

\* C14: the Image Source is called exactly once at the start of every
\* attempt, and the recognizer in attempt k is only ever given the image
\* pair acquired in attempt k, never one from an earlier attempt.
C14_FreshImages ==
    /\ pc = "acquire" => (calls.image = attempt - 1 /\ stages = <<>>)
    /\ pc \notin {"wait", "acquire"} => calls.image = attempt
    /\ Staged("recognize") => (recognized = attempt /\ recognized = images)

\* The second attempt recognizes its own pair although the first attempt
\* had fetched one too.
C14_Witness == /\ Staged("recognize") /\ attempt = 2 /\ recognized = 2
               /\ calls.recognize = 2 /\ calls.image = 2

\* C15: in any attempt whose target distance is <= 0, no press, move or
\* release is issued and the verifier is not called; the attempt counts as
\* failed and the controller goes on to a new attempt when attempts remain.
C15_NonPositiveTarget ==
    (Staged("synthesize") /\ final_distance <= 0) =>
        /\ track = <<>>
        /\ ~drag.called /\ drag.pressCalls = 0 /\ drag.moveCalls = 0
        /\ drag.releaseCalls = 0
        /\ ~Staged("drag") /\ ~Staged("verify") /\ verified = "none"
        /\ outcome \notin {"true", "raised"}
        /\ AttemptFailed

\* A negative target in the first of two attempts.
C15_Witness == /\ Staged("synthesize") /\ final_distance < 0 /\ pc = "loop"
               /\ attempt = 1 /\ max_attempts = 2 /\ calls.drag = 0

\* C16: when the Image Source returns empty images, the attempt ends without
\* calling the recognizer, the drag executor or the verifier, nothing is
\* raised, and a new attempt starts when attempts remain.
C16_EmptyImages ==
    fault = "no_images" =>
        /\ stages = <<"acquire">>
        /\ images = 0 /\ recognized = 0
        /\ ~drag.called /\ verified = "none"
        /\ outcome # "raised"
        /\ AttemptFailed

\* No images in the first of two attempts.
C16_Witness == /\ fault = "no_images" /\ pc = "loop" /\ attempt = 1
               /\ max_attempts = 2 /\ calls.recognize = 0

\* C17: when drag_slider reports failure because a press, move or release
\* raised, the verifier is not called in that attempt, nothing is raised out
\* of the controller, and a new attempt starts when attempts remain.
C17_DragFailure ==
    (drag.called /\ drag.kind \in {"press", "move", "flush", "release"}) =>
        /\ ~drag.ret /\ ~drag.raised
        /\ fault = "drag"
        /\ ~Staged("verify") /\ verified = "none"
        /\ outcome # "raised"
        /\ AttemptFailed

\* The final release raised in the first of two attempts.
C17_Witness == /\ drag.called /\ drag.kind = "release" /\ pc = "loop"
               /\ attempt = 1 /\ max_attempts = 2 /\ calls.verify = 0

\* C18: when the first attempt has valid images, a positive target, a
\* successful drag and a verification that reports the popup absent,
\* handle_slider_captcha returns success after exactly one attempt: one Image
\* Source call, one drag and one verifier call (for raw offset 200, ratio
\* 0.75, margin 10 the target is 140).
C18_FirstAttemptSuccess ==
    (attempt = 1 /\ verified = "absent") =>
        /\ pc = "done" /\ outcome = "true"
        /\ calls.image = 1 /\ calls.drag = 1 /\ calls.verify = 1
        /\ final_distance > 0 /\ drag.ret /\ drag.moved = track
        /\ (distance = 200 /\ scale_ratio = 3 /\ safe_margin = 10) =>
              (final_distance = 140 /\ SumSeq(track) = 140)

\* The scenario of the specification: 200 px, ratio 0.75, margin 10.
C18_Witness == /\ attempt = 1 /\ verified = "absent" /\ outcome = "true"
               /\ distance = 200 /\ scale_ratio = 3 /\ safe_margin = 10
               /\ final_distance = 140 /\ calls.verify = 1

\* C19: for every target distance d <= 0, generate_track returns the empty
\* sequence.
C19_DegenerateTrack ==
    (sim.phase = "done" /\ sim.target <= 0) => sim.track = <<>>

\* A negative target.
C19_Witness == sim.phase = "done" /\ sim.target < 0 /\ sim.track = <<>>

\* C20: for a trajectory of length L >= 1, drag_slider flushes the queued
\* moves exactly ceil(L/5) times: once after every 5th increment and once
\* after the last increment, so no increment is left unflushed when the
\* release is issued.
C20_FlushCount ==
    /\ (drag.called /\ drag.kind \in {"none", "release"}) =>
          /\ Len(track) >= 1
          /\ drag.moveCalls = Len(track)
          /\ drag.flushCalls = (Len(track) + BatchSize - 1) \div BatchSize
          /\ drag.flushed = Len(track)
    /\ (drag.called /\ drag.kind = "flush") =>
          (drag.moveCalls % BatchSize = 0 \/ drag.moveCalls = Len(track))

\* Seven increments: one flush after the fifth, one after the last.
C20_Witness == /\ drag.called /\ drag.kind = "none" /\ Len(track) > BatchSize
               /\ Len(track) % BatchSize # 0 /\ drag.flushCalls = 2
               /\ drag.flushed = Len(track)

\* C21: calculate_scale_ratio never raises: it returns 1.0 when the
\* background element is missing, when the native width is zero, when the
\* query returns nothing, and when the query itself raises.
C21_ScaleRatioDefault ==
    (Staged("correct") /\ scale_query \in {"no_element", "zero_width", "empty", "raise"}) =>
        /\ scale_ratio = DefaultRatio
        /\ final_distance = distance - safe_margin
        /\ Len(stages) = 3 => (pc = "synthesize" /\ outcome # "raised")

\* The query raised and the attempt went on with ratio 1.0.
C21_Witness == /\ scale_query = "raise" /\ distance = 100 /\ scale_ratio = DefaultRatio
               /\ Staged("drag") /\ final_distance = 100 - safe_margin

\* C22: a recognized offset below 20 px does not by itself abort the
\* attempt: provided the resulting target distance is positive, the attempt
\* continues through scale correction, trajectory synthesis, drag and
\* verification exactly as for a larger offset.
C22_SmallOffsetContinues ==
    /\ (Len(stages) = 2 /\ fault # "matcher") => pc = "correct"
    /\ (Staged("synthesize") /\ distance < 20 /\ final_distance > 0) =>
          /\ track # <<>> /\ SumSeq(track) = final_distance
          /\ fault # "empty_track"
          /\ Len(stages) = 4 => pc = "drag"

\* An offset of 15 px, margin 5: dragged by 10 px and verified.
C22_Witness == /\ distance = 15 /\ final_distance = 10 /\ Staged("verify")
               /\ verified = "absent" /\ outcome = "true"

\* C24: on a successful drag the Automation Surface receives exactly one
\* press on the handle, then the trajectory's increments as forward moves in
\* their original order, then one release; the total horizontal displacement
\* delivered equals the sum of the trajectory, and drag_slider reports
\* success only in this case.
C24_SuccessfulGesture ==
    (drag.called /\ drag.ret) =>
        LET g == drag.surface IN
        /\ Len(g) = Len(track) + 2
        /\ g[1].op = "press"
        /\ \A i \in 1..Len(track) : g[i + 1] = [op |-> "move", dx |-> track[i]]
        /\ g[Len(g)].op = "release"
        /\ SumSeq([i \in 1..Len(g) |-> g[i].dx]) = SumSeq(track)
        /\ Cardinality({i \in 1..Len(g) : g[i].op = "press"}) = 1
        /\ Cardinality({i \in 1..Len(g) : g[i].op = "release"}) = 1

\* A successful drag of more than one batch.
C24_Witness == /\ drag.called /\ drag.ret /\ Len(track) > BatchSize
               /\ Len(drag.surface) = Len(track) + 2 /\ pc = "verify"

Unimodal(tr) ==
    \E k \in 1..Len(tr) :
        /\ \A i \in 1..(k - 1) : tr[i] <= tr[i + 1]
        /\ \A i \in k..(Len(tr) - 1) : tr[i] >= tr[i + 1]

\* C25: for every target distance d > 0 the trajectory has an
\* accelerate-then-decelerate shape: its increments are non-decreasing up to
\* some index and non-increasing from that index to the end, including the
\* remainder-corrected last increment.
C25_TrackShape ==
    (sim.phase = "done" /\ sim.target > 0) => Unimodal(sim.track)

\* A trajectory that rises, falls, and whose last increment was corrected.
C25_Witness ==
    /\ sim.phase = "done" /\ sim.delta # 0 /\ Len(sim.track) > 3
    /\ \E i, j \in 1..(Len(sim.track) - 1) :
          /\ i < j
          /\ sim.track[i] < sim.track[i + 1]
          /\ sim.track[j] > sim.track[j + 1]
    /\ Unimodal(sim.track)

\* C26: for every positive target distance the simulation loop of
\* generate_track terminates: the running position reaches the target after
\* finitely many steps, also after the velocity has been clamped to zero in
\* the deceleration phase.
C26_LoopTerminates ==
    (sim.phase = "loop") ~> (sim.phase = "done" /\ sim.current = Q * sim.target)

\* The loop has ended with the position on the target and the velocity
\* brought down to zero by the deceleration.
C26_Witness ==
    /\ sim.phase = "done" /\ sim.target > 0
    /\ sim.current = Q * sim.target /\ sim.v = 0

\* C27: in every step of generate_track's simulation loop the velocity is
\* non-negative, the step's displacement is strictly positive, and the
\* running position never exceeds the target distance (so the position never
\* moves backwards).
C27_StepForward ==
    [][TrackStep =>
          /\ sim'.v >= 0
          /\ sim'.last_move > 0
          /\ sim'.current = sim.current + sim'.last_move
          /\ sim'.current > sim.current
          /\ sim'.current <= Q * sim'.target]_vars

\* A step whose displacement was cut down to the remainder, while decelerating.
C27_Witness ==
    /\ sim.phase = "loop" /\ sim.current = Q * sim.target
    /\ sim.v > 0 /\ sim.last_move > 0
    /\ sim.last_move < (Q * (sim.v - A2 \div 10)) \div 10 + (Q * A2) \div 200

\* C23: every append to the shared results collection is made while holding
\* the single results lock, so appends by different account workers never
\* interleave, and the summary reads the collection only after every worker
\* has been joined.
C23_AppendUnderLock ==
    /\ \A w \in Accounts :
          acct[w].pc \in {"login_append", "append", "login_release", "release"} => lock = w
    /\ mainp.pc \in {"summary", "done"} =>
          (mainp.joined = NumAccounts /\ \A w \in Accounts : Over(acct[w]))
    /\ mainp.pc = "done" => mainp.total = Len(results)

\* Both workers have appended, the later-started one first, and the summary
\* has counted both entries.
C23_Witness ==
    /\ mainp.pc = "done" /\ mainp.total = NumAccounts
    /\ Len(results) = NumAccounts /\ results[1].account = NumAccounts

\* C28: every account worker that gets past browser creation appends exactly
\* one result entry to the shared results collection before it ends, and
\* that entry has success = true whenever reserve() reported success.
C28_OneEntryPerWorker ==
    \A w \in Accounts :
        (Over(acct[w]) /\ acct[w].browser # "none") =>
            /\ Entries(results, w) = 1
            /\ acct[w].reserve = "true" =>
                  \E i \in 1..Len(results) : results[i].account = w /\ results[i].success

\* C29: on every path by which an account worker ends after its browser was
\* created (login failure, reservation failure, reservation success, captcha
\* failure), the worker's browser is quit exactly once.
C29_BrowserQuitOnce ==
    \A w \in Accounts :
        (Over(acct[w]) /\ acct[w].browser # "none"
           /\ (acct[w].login = "false" \/ acct[w].reserve \in {"true", "false"})) =>
            (acct[w].quits = 1 /\ acct[w].browser = "closed")

\* C30: reserve runs enter page, select room, select date, select seat,
\* confirm, solve captcha, verify success in that order; the first failing
\* step ends reserve with failure and no later step runs, so the captcha
\* solver is invoked only after the five preceding steps succeeded and
\* reserve reports success only if the captcha solver reported success.
C30_ReserveOrder ==
    \A w \in Accounts :
        LET a == acct[w] IN
        /\ Len(a.ran) <= Len(ReserveSteps)
        /\ \A i \in 1..Len(a.ran) : a.ran[i] = ReserveSteps[i]
        /\ a.failed # "none" =>
              (a.ran[Len(a.ran)] = a.failed /\ a.reserve \in {"false", "raised"}
                 /\ a.pc # "reserve")
        /\ a.captcha # "none" => (Len(a.ran) >= 6 /\ a.failed \notin {ReserveSteps[i] : i \in 1..5})
        /\ a.reserve = "true" => (a.captcha = "true" /\ a.failed = "none" /\ a.ran = ReserveSteps)
        /\ a.reserve = "false" => a.failed # "none"

\* The captcha solver reported failure after five good steps: reserve ended
\* there with failure and verify_success never ran.
C30_Witness ==
    \E w \in Accounts :
        /\ acct[w].captcha = "false" /\ acct[w].reserve = "false"
        /\ Len(acct[w].ran) = 6 /\ acct[w].pc = "ended"

\* C38: in generate_track, for every target distance d > 0 the sum of the
\* rounded steps before the remainder correction never exceeds d: the
\* remainder added to the last step is never negative, so the floor at 1
\* never alters the corrected last step.
C38_RemainderNonNegative ==
    (sim.phase = "done" /\ sim.target > 0) =>
        LET n == Len(sim.raw_track)
            rounded == [i \in 1..n |-> RoundStep(sim.raw_track[i])]
        IN  /\ SumSeq(rounded) <= sim.target
            /\ sim.delta = sim.target - SumSeq(rounded)
            /\ sim.delta >= 0
            /\ sim.track[n] = rounded[n] + sim.delta

\* A call whose rounded steps fell short of the target by one pixel.
C38_Witness ==
    /\ sim.phase = "done" /\ sim.target > 0 /\ sim.delta > 0
    /\ sim.track[Len(sim.track)] = RoundStep(sim.raw_track[Len(sim.raw_track)]) + sim.delta

\* A reply after which the loop goes on: a timeout, an exception, a non-200
\* status or an errcode outside 0, 93000, 93004.
Retryable(r) ==
    \/ r.kind \in {"timeout", "exception"}
    \/ r.kind = "reply" /\ r.status # 200
    \/ r.kind = "reply" /\ r.status = 200 /\ r.errcode \notin {0, 93000, 93004}

\* C35: for a configured notifier, one _send_message call makes at most
\* max_retries POST attempts, stops at the first attempt acknowledged with
\* errcode 0, retries after a timeout, an exception, a non-200 status or a
\* retryable errcode, and sleeps between attempts only when another attempt
\* remains.
C35_SendAttempts ==
    LET n == notifier
        k == Len(n.replies)
    IN  /\ k <= n.max_retries
        /\ \A i \in 1..(k - 1) : Retryable(n.replies[i])
        /\ (k > 0 /\ n.replies[k].errcode = 0 /\ n.replies[k].status = 200) =>
              (n.pc = "idle" /\ n.ret = "success")
        /\ (n.pc = "sending" /\ k > 0) => Retryable(n.replies[k])
        /\ (n.pc = "sending" /\ k > 0 /\ k < n.max_retries) => ENABLED PostAttempt
        /\ n.sleeps = Cardinality({i \in 1..k : Retryable(n.replies[i]) /\ i < n.max_retries})

\* The first attempt timed out, one sleep followed, and the second attempt
\* was acknowledged.
C35_Witness ==
    /\ notifier.ret = "success" /\ Len(notifier.replies) = 2
    /\ notifier.replies[1].kind = "timeout" /\ notifier.sleeps = 1
    /\ notifier.max_retries = 2

\* C36: after any sequence of completed sends on one notifier, total_sent ==
\* success_sent + failed_sent: every completed _send_message increments
\* total_sent by one and exactly one of success_sent and failed_sent by one,
\* and a send rejected as not configured changes no counter.
C36_StatsBalance ==
    /\ notifier.pc = "idle" =>
          /\ notifier.total_sent = notifier.success_sent + notifier.failed_sent
          /\ notifier.total_sent = notifier.completed
    /\ notifier.pc = "sending" =>
          notifier.total_sent = notifier.success_sent + notifier.failed_sent + 1
    /\ notifier.rejected > 0 => notifier.total_sent = 0

\* One send acknowledged and one that ran out of attempts.
C36_Witness ==
    /\ notifier.pc = "idle" /\ notifier.completed = 2
    /\ notifier.success_sent = 1 /\ notifier.failed_sent = 1
    /\ notifier.ret = "send_failed" /\ notifier.total_sent = 2

\* C37: an API reply with errcode 93000 or 93004 ends _send_message at once
\* as a failure marked non-retryable: no further POST attempt is made and
\* failed_sent is incremented exactly once.
C37_NoRetryCodes ==
    \A i \in 1..Len(notifier.replies) :
        (notifier.replies[i].status = 200 /\ notifier.replies[i].errcode \in {93000, 93004}) =>
            /\ i = Len(notifier.replies)
            /\ notifier.pc = "idle"
            /\ notifier.ret = "no_retry"
            /\ notifier.failed_sent = notifier.failed_before + 1
            /\ ~ENABLED PostAttempt

\* errcode 93004 on the first attempt of a send that had attempts left.
C37_Witness ==
    /\ notifier.ret = "no_retry" /\ notifier.max_retries = 2
    /\ Len(notifier.replies) = 1 /\ notifier.replies[1].errcode = 93004
    /\ notifier.failed_sent = notifier.failed_before + 1

\* C31: wait_for_element returns the element when the wait condition is met
\* within the timeout and returns None, without raising, when the timeout
\* expires.
C31_WaitReturnsNone ==
    (helper.op = "wait_for_element" /\ helper.pc = "done") =>
        /\ helper.met => helper.ret = "element"
        /\ ~helper.met => helper.ret = "none"

\* C32: click_and_wait performs at most `retries` click attempts, returns
\* True as soon as the expected element appears after a click, returns False
\* once all `retries` attempts have failed, and waits before a next attempt
\* only when one remains.
C32_ClickAndWaitRetries ==
    helper.op = "click_and_wait" =>
        /\ helper.attempt <= helper.retries
        /\ helper.clicks <= helper.retries
        /\ helper.expected => (helper.pc = "done" /\ helper.ret = "true")
        /\ (helper.pc = "done" /\ ~helper.expected) =>
              (helper.ret = "false" /\ helper.failures = helper.retries)
        /\ (helper.pc = "loop" /\ helper.failures > 0) => helper.sleeps = helper.failures
        /\ helper.sleeps <= Max(0, helper.retries - 1)

\* C33: safe_click is a click with retry: it attempts the click up to
\* `retries` times, returns True as soon as one attempt succeeds, and
\* returns False when every attempt failed instead of letting a failing
\* click escape as an exception.
C33_SafeClickRetries ==
    (helper.op = "safe_click" /\ helper.pc = "done"
       /\ (helper.byLocator => helper.met)) =>
        /\ helper.clicks <= helper.retries
        /\ (helper.retries > 0 /\ helper.clickOk) => helper.ret = "true"
        /\ ~helper.clickOk => (helper.ret = "false" /\ helper.clicks = helper.retries)

\* C34: select_seat tries the candidate seats in the given priority order,
\* clicks at most one seat (the first candidate that is found clickable and
\* whose click succeeds), tries no candidate after that one, and returns
\* False only after every candidate was tried and none was clicked.
C34_SeatPriority ==
    helper.op = "select_seat" =>
        /\ Len(helper.tried) <= Len(helper.seats)
        /\ \A i \in 1..Len(helper.tried) : helper.tried[i] = helper.seats[i]
        /\ Len(helper.clicked) <= 1
        /\ helper.clicked # <<>> =>
              (helper.pc = "done" /\ helper.ret = "true"
                 /\ helper.clicked[1] = helper.tried[Len(helper.tried)])
        /\ (helper.pc = "done" /\ helper.clicked = <<>>) =>
              (helper.ret = "false" /\ helper.tried = helper.seats)
====
